---- MODULE Spec2Model ----
(***************************************************************************)
(* Model of ProjFS.Mac/PrjFSKext/PrjFSKext/KauthHandler.cpp: the kauth     *)
(* vnode listener (HandleVnodeOperation), the blocking request/response    *)
(* round trip (TrySendRequestAndWaitForResponse), the response callback    *)
(* (KauthHandler_HandleKernelMessageResponse) and the lifecycle            *)
(* (KauthHandler_Init, KauthHandler_Cleanup, AbortAllOutstandingEvents).   *)
(***************************************************************************)
EXTENDS Integers, Sequences, FiniteSets, TLC

(***************************************************************************)
(* Bounds of the model.                                                    *)
(***************************************************************************)
\* Largest message id OSIncrementAtomic hands out before new callbacks are held back.
MaxMessageId == 2

\* Largest number of access bits set in one kauth action of GateSpec.
MaxActionBits == 2

(***************************************************************************)
(* Threads.  The kernel calls the listener on any number of threads; two   *)
(* of them are modelled.  One thread runs the kext's start and stop        *)
(* routines; the provider's responses arrive on threads of their own.      *)
(***************************************************************************)
GateThreads == {"g1", "g2"}

LifecycleThread == "lc"

NoOwner == "none"

(***************************************************************************)
(* Values of <sys/kauth.h>, <sys/vnode.h>, Message.h and PrjFSCommon.h as  *)
(* the handler uses them.  A kauth action is the set of its set bits.      *)
(***************************************************************************)
KAUTH_RESULT_DENY == "KAUTH_RESULT_DENY"

KAUTH_RESULT_DEFER == "KAUTH_RESULT_DEFER"

KAUTH_VNODE_READ_DATA == "READ_DATA"

KAUTH_VNODE_LIST_DIRECTORY == KAUTH_VNODE_READ_DATA

KAUTH_VNODE_WRITE_DATA == "WRITE_DATA"

KAUTH_VNODE_EXECUTE == "EXECUTE"

KAUTH_VNODE_SEARCH == KAUTH_VNODE_EXECUTE

KAUTH_VNODE_DELETE == "DELETE"

KAUTH_VNODE_APPEND_DATA == "APPEND_DATA"

KAUTH_VNODE_DELETE_CHILD == "DELETE_CHILD"

KAUTH_VNODE_READ_ATTRIBUTES == "READ_ATTRIBUTES"

KAUTH_VNODE_WRITE_ATTRIBUTES == "WRITE_ATTRIBUTES"

KAUTH_VNODE_READ_EXTATTRIBUTES == "READ_EXTATTRIBUTES"

KAUTH_VNODE_WRITE_EXTATTRIBUTES == "WRITE_EXTATTRIBUTES"

KAUTH_VNODE_READ_SECURITY == "READ_SECURITY"

KAUTH_VNODE_WRITE_SECURITY == "WRITE_SECURITY"

KAUTH_VNODE_LINKTARGET == "LINKTARGET"

KAUTH_VNODE_ACCESS == "ACCESS"

ActionBits ==
    { KAUTH_VNODE_READ_DATA, KAUTH_VNODE_WRITE_DATA, KAUTH_VNODE_EXECUTE,
      KAUTH_VNODE_DELETE, KAUTH_VNODE_APPEND_DATA, KAUTH_VNODE_DELETE_CHILD,
      KAUTH_VNODE_READ_ATTRIBUTES, KAUTH_VNODE_WRITE_ATTRIBUTES,
      KAUTH_VNODE_READ_EXTATTRIBUTES, KAUTH_VNODE_WRITE_EXTATTRIBUTES,
      KAUTH_VNODE_READ_SECURITY, KAUTH_VNODE_WRITE_SECURITY,
      KAUTH_VNODE_LINKTARGET, KAUTH_VNODE_ACCESS }

FileFlags_IsInVirtualizationRoot == "IsInVirtualizationRoot"

FileFlags_IsEmpty == "IsEmpty"

VnodeTypes ==
    { "VNON", "VREG", "VDIR", "VBLK", "VCHR", "VLNK", "VSOCK", "VFIFO", "VBAD",
      "VSTR", "VCPLX" }

MessageType_KtoU_EnumerateDirectory == "KtoU_EnumerateDirectory"

MessageType_KtoU_HydrateFile == "KtoU_HydrateFile"

MessageType_Response_Success == "Response_Success"

MessageType_Response_Fail == "Response_Fail"

\* The value of a field the code has not written yet.
Uninitialized == "uninitialized"

\* errno values of the error output: the caller's default and EAGAIN.
ErrorUnset == "unset"

EAGAIN == "EAGAIN"

(***************************************************************************)
(* Pure helpers of the handler.                                            *)
(***************************************************************************)
\* A flag test that finds every bit set.
FileFlagsBitIsSet_Always(fileFlags, bit) == TRUE

FileFlagsBitIsSet(fileFlags, bit) == (fileFlags \cap {bit}) # {}

ActionBitIsSet(action, mask) == (action \cap mask) # {}

ActionBitsNotSet(action, mask) == (action \cap mask) = {}

\* A crawler test that does not know mds.
IsFileSystemCrawler_NoMds(procname) ==
    \/ procname = "mdworker"
    \/ procname = "mds_stores"
    \/ procname = "fseventsd"
    \/ procname = "Spotlight"

IsFileSystemCrawler(procname) ==
    \/ procname = "mds"
    \/ procname = "mdworker"
    \/ procname = "mds_stores"
    \/ procname = "fseventsd"
    \/ procname = "Spotlight"

ShouldIgnoreVnodeType(vnodeType) ==
    CASE vnodeType \in {"VNON", "VBLK", "VCHR", "VSOCK", "VFIFO", "VBAD"} -> TRUE
      [] vnodeType \in {"VREG", "VDIR", "VLNK"} -> FALSE
      [] vnodeType \in {"VSTR", "VCPLX"} -> FALSE
      [] OTHER -> FALSE

(***************************************************************************)
(* The arguments of one listener call and what the environment answers     *)
(* about them: the filesystem check, the vnode's type and flags, the       *)
(* caller's pid and name, the root VirtualizationRoots_FindForVnode finds. *)
(***************************************************************************)
NoRoot == [found |-> FALSE, index |-> -1, providerPid |-> 0, providerUserClient |-> FALSE]

LiveRoot == [found |-> TRUE, index |-> 0, providerPid |-> 100, providerUserClient |-> TRUE]

OfflineRoot == [found |-> TRUE, index |-> 0, providerPid |-> 100, providerUserClient |-> FALSE]

Roots == {NoRoot, LiveRoot, OfflineRoot}

Pids == {100, 200}

NoInput ==
    [fsAllowed |-> FALSE, vtype |-> "VNON", flags |-> {}, procname |-> "",
     root |-> NoRoot, pid |-> 0, action |-> {}]

\* The decision of lines 155-336 up to the call of the round trip: the
\* verdict when the handler returns at once, or the request it sends.
NoRoundTrip == "none"

Decision(result, request) == [kauthResult |-> result, request |-> request]

\* An offline branch that lets everything through.
OfflineRootDecision_AlwaysDefer(i) == Decision(KAUTH_RESULT_DEFER, NoRoundTrip)

OfflineRootDecision(i) ==
    LET vnodeIsDir == (i.vtype = "VDIR")
    IN  IF i.root.index >= 0
        THEN IF /\ ActionBitsNotSet(i.action, {KAUTH_VNODE_ACCESS})
                /\ ActionBitIsSet(i.action,
                       { KAUTH_VNODE_WRITE_ATTRIBUTES, KAUTH_VNODE_WRITE_EXTATTRIBUTES,
                         KAUTH_VNODE_WRITE_DATA, KAUTH_VNODE_APPEND_DATA,
                         KAUTH_VNODE_WRITE_SECURITY, KAUTH_VNODE_LINKTARGET })
             THEN Decision(KAUTH_RESULT_DENY, NoRoundTrip)
             ELSE IF FileFlagsBitIsSet(i.flags, FileFlags_IsEmpty)
                  THEN IF ActionBitIsSet(i.action,
                              { KAUTH_VNODE_ACCESS, KAUTH_VNODE_DELETE_CHILD,
                                KAUTH_VNODE_DELETE, KAUTH_VNODE_READ_EXTATTRIBUTES })
                       THEN Decision(KAUTH_RESULT_DEFER, NoRoundTrip)
                       ELSE IF /\ vnodeIsDir
                               /\ ActionBitIsSet(i.action,
                                      { KAUTH_VNODE_READ_ATTRIBUTES, KAUTH_VNODE_READ_SECURITY,
                                        KAUTH_VNODE_LIST_DIRECTORY, KAUTH_VNODE_SEARCH })
                            THEN Decision(KAUTH_RESULT_DEFER, NoRoundTrip)
                            ELSE Decision(KAUTH_RESULT_DENY, NoRoundTrip)
                  ELSE Decision(KAUTH_RESULT_DEFER, NoRoundTrip)
        ELSE Decision(KAUTH_RESULT_DEFER, NoRoundTrip)

\* A live branch that asks the provider for hydrated nodes too.
LiveRootDecision_IgnoresEmpty(i) ==
    IF i.vtype = "VDIR"
    THEN IF ActionBitIsSet(i.action,
                { KAUTH_VNODE_LIST_DIRECTORY, KAUTH_VNODE_SEARCH,
                  KAUTH_VNODE_READ_SECURITY, KAUTH_VNODE_READ_ATTRIBUTES,
                  KAUTH_VNODE_READ_EXTATTRIBUTES })
         THEN Decision(KAUTH_RESULT_DEFER, MessageType_KtoU_EnumerateDirectory)
         ELSE Decision(KAUTH_RESULT_DEFER, NoRoundTrip)
    ELSE IF ActionBitIsSet(i.action,
                { KAUTH_VNODE_READ_ATTRIBUTES, KAUTH_VNODE_WRITE_ATTRIBUTES,
                  KAUTH_VNODE_READ_EXTATTRIBUTES, KAUTH_VNODE_WRITE_EXTATTRIBUTES,
                  KAUTH_VNODE_READ_DATA, KAUTH_VNODE_WRITE_DATA,
                  KAUTH_VNODE_EXECUTE })
         THEN Decision(KAUTH_RESULT_DEFER, MessageType_KtoU_HydrateFile)
         ELSE Decision(KAUTH_RESULT_DEFER, NoRoundTrip)

LiveRootDecision(i) ==
    IF i.vtype = "VDIR"
    THEN IF /\ ActionBitIsSet(i.action,
                   { KAUTH_VNODE_LIST_DIRECTORY, KAUTH_VNODE_SEARCH,
                     KAUTH_VNODE_READ_SECURITY, KAUTH_VNODE_READ_ATTRIBUTES,
                     KAUTH_VNODE_READ_EXTATTRIBUTES })
            /\ FileFlagsBitIsSet(i.flags, FileFlags_IsEmpty)
         THEN Decision(KAUTH_RESULT_DEFER, MessageType_KtoU_EnumerateDirectory)
         ELSE Decision(KAUTH_RESULT_DEFER, NoRoundTrip)
    ELSE IF /\ ActionBitIsSet(i.action,
                   { KAUTH_VNODE_READ_ATTRIBUTES, KAUTH_VNODE_WRITE_ATTRIBUTES,
                     KAUTH_VNODE_READ_EXTATTRIBUTES, KAUTH_VNODE_WRITE_EXTATTRIBUTES,
                     KAUTH_VNODE_READ_DATA, KAUTH_VNODE_WRITE_DATA,
                     KAUTH_VNODE_EXECUTE })
            /\ FileFlagsBitIsSet(i.flags, FileFlags_IsEmpty)
         THEN Decision(KAUTH_RESULT_DEFER, MessageType_KtoU_HydrateFile)
         ELSE Decision(KAUTH_RESULT_DEFER, NoRoundTrip)

\* A handler without the test of line 276.
CallerIsProvider_Never(i) == FALSE

\* The calling process is the provider itself (line 276).
CallerIsProvider(i) == i.pid = i.root.providerPid

GateDecision(i) ==
    IF ~i.fsAllowed
    THEN Decision(KAUTH_RESULT_DEFER, NoRoundTrip)
    ELSE IF ShouldIgnoreVnodeType(i.vtype)
    THEN Decision(KAUTH_RESULT_DEFER, NoRoundTrip)
    ELSE IF ~FileFlagsBitIsSet(i.flags, FileFlags_IsInVirtualizationRoot)
    THEN Decision(KAUTH_RESULT_DEFER, NoRoundTrip)
    ELSE IF FileFlagsBitIsSet(i.flags, FileFlags_IsEmpty) /\ IsFileSystemCrawler(i.procname)
    THEN Decision(KAUTH_RESULT_DENY, NoRoundTrip)
    ELSE IF ~i.root.found
    THEN Decision(KAUTH_RESULT_DEFER, NoRoundTrip)
    ELSE IF ~i.root.providerUserClient
    THEN OfflineRootDecision(i)
    ELSE IF CallerIsProvider(i)
    THEN Decision(KAUTH_RESULT_DEFER, NoRoundTrip)
    ELSE LiveRootDecision(i)

(***************************************************************************)
(* State.  The statics of lines 62-69, each thread's position and locals,  *)
(* and the kernel's view of the kext.                                      *)
(***************************************************************************)
VARIABLES
    s_vnodeListener,            \* TRUE: the listener is registered (non-null)
    s_outstandingMessages,      \* the list, head first; a record is named by its thread
    s_outstandingMessagesMutex, \* [valid, owner]
    s_nextMessageId,
    s_numActiveKauthEvents,
    s_isShuttingDown,
    pc,                         \* each thread's position
    args,                       \* the arguments of a gate thread's current call
    message,                    \* the OutstandingMessage on a gate thread's stack
    isShuttingDown,             \* the local of line 404
    kauthResult,                \* the verdict of a gate thread's call
    kauthError,                 \* what the call wrote to *kauthError
    sent,                       \* ActiveProvider_SendMessage accepted the call's request
    delivered,                  \* the responses stored into the record, [count, kind]
    lcCall,                     \* the routine the lifecycle thread is in or returned from
    lcResult,                   \* kern_return_t of the last routine that returned
    cleanupResult,              \* the local result of KauthHandler_Cleanup
    started,                    \* the kernel holds the kext started
    dropped,                    \* a response found no record to store into
    panicked                    \* the fault the kernel panicked on: nothing runs any more

statics ==
    << s_vnodeListener, s_outstandingMessages, s_outstandingMessagesMutex,
       s_nextMessageId, s_numActiveKauthEvents, s_isShuttingDown >>

gateLocals == << args, message, isShuttingDown, kauthResult, kauthError, sent, delivered >>

lcLocals == << lcCall, lcResult, cleanupResult, started >>

vars == << statics, pc, gateLocals, lcLocals, dropped, panicked >>

Threads == GateThreads \cup {LifecycleThread}

NoMutex == [valid |-> FALSE, owner |-> NoOwner]

NoMessage ==
    [messageId |-> 0, messageType |-> "none", response |-> Uninitialized,
     receivedResponse |-> FALSE]

NoDelivery == [count |-> 0, kind |-> Uninitialized]

Responder == "responder"

NoPanic == [fault |-> "none", caller |-> "none"]

Panic(fault, caller) == [fault |-> fault, caller |-> caller]

Init ==
    /\ s_vnodeListener = FALSE
    /\ s_outstandingMessages = << >>
    /\ s_outstandingMessagesMutex = NoMutex
    /\ s_nextMessageId = 0
    /\ s_numActiveKauthEvents = 0
    /\ s_isShuttingDown = FALSE
    /\ pc = [t \in Threads |-> "idle"]
    /\ args = [t \in GateThreads |-> NoInput]
    /\ message = [t \in GateThreads |-> NoMessage]
    /\ isShuttingDown = [t \in GateThreads |-> FALSE]
    /\ kauthResult = [t \in GateThreads |-> KAUTH_RESULT_DEFER]
    /\ kauthError = [t \in GateThreads |-> ErrorUnset]
    /\ sent = [t \in GateThreads |-> FALSE]
    /\ delivered = [t \in GateThreads |-> NoDelivery]
    /\ lcCall = "none"
    /\ lcResult = "none"
    /\ cleanupResult = "KERN_SUCCESS"
    /\ started = FALSE
    /\ dropped = FALSE
    /\ panicked = NoPanic

(***************************************************************************)
(* The list macros of <sys/queue.h> on s_outstandingMessages.              *)
(***************************************************************************)
Members(list) == { list[k] : k \in 1..Len(list) }

LIST_INSERT_HEAD(list, elm) == << elm >> \o list

\* A LIST_REMOVE that leaves the record linked.
LIST_REMOVE_Nothing(list, elm) == list

LIST_REMOVE(list, elm) == SelectSeq(list, LAMBDA e : e # elm)

\* A scan that stops at the head whatever its id.
FirstMatch_AnyId(list, msgs, id) ==
    IF list = << >> THEN {} ELSE { Head(list) }

\* The first record of the list that carries the id: the one LIST_FOREACH
\* stops at (line 354), or none.
FirstMatch(list, msgs, id) ==
    LET hits == { k \in 1..Len(list) : msgs[list[k]].messageId = id }
    IN  IF hits = {} THEN {} ELSE { list[CHOOSE k \in hits : \A j \in hits : k <= j] }

\* wakeup(channel): the threads sleeping on one of the records go back to
\* the test of their loop.
Wakeup(records) ==
    [t \in Threads |-> IF t \in records /\ pc[t] = "ts_sleep" THEN "ts_wait" ELSE pc[t]]

(***************************************************************************)
(* Locks.hpp on s_outstandingMessagesMutex.  The kernel panics when a      *)
(* thread locks or unlocks a mutex that is not allocated, or unlocks one   *)
(* it does not hold; a thread that finds the mutex held waits.             *)
(***************************************************************************)
Mutex_IsValid(mutex) == mutex.valid

Mutex_Acquire(t, next) ==
    IF ~Mutex_IsValid(s_outstandingMessagesMutex)
    THEN /\ panicked' = Panic("Mutex_Acquire", t)
         /\ UNCHANGED << s_outstandingMessagesMutex, pc >>
    ELSE /\ s_outstandingMessagesMutex.owner = NoOwner
         /\ s_outstandingMessagesMutex' = [s_outstandingMessagesMutex EXCEPT !.owner = t]
         /\ pc' = [pc EXCEPT ![t] = next]
         /\ UNCHANGED panicked

Mutex_Release(t, next) ==
    IF ~Mutex_IsValid(s_outstandingMessagesMutex) \/ s_outstandingMessagesMutex.owner # t
    THEN /\ panicked' = Panic("Mutex_Release", t)
         /\ UNCHANGED << s_outstandingMessagesMutex, pc >>
    ELSE /\ s_outstandingMessagesMutex' = [s_outstandingMessagesMutex EXCEPT !.owner = NoOwner]
         /\ pc' = [pc EXCEPT ![t] = next]
         /\ UNCHANGED panicked

\* Mutex_FreeMemory: the mutex is no longer allocated, whoever holds it.
Mutex_FreeMemory(mutex) == NoMutex

\* Mutex_Acquire ... Mutex_Release around a section that nothing else
\* enters while the mutex is held, taken in one step: the section waits
\* until the mutex is free.
MutexIsFree(mutex) == mutex.owner = NoOwner

(***************************************************************************)
(* HandleVnodeOperation on a gate thread.                                  *)
(***************************************************************************)
\* Callbacks that may still draw a message id.
BeforeMessageId == { t \in GateThreads : pc[t] \in {"called", "ts_getpath"} }

\* The kernel's kauth scope finds the listener registered and calls it with
\* arguments out of inputs.  The callback has not run its first statement yet
\* (lines 476-482: kauth_unlisten_scope does not wait for such a call).
Dispatch(t, inputs) ==
    /\ panicked = NoPanic
    /\ pc[t] = "idle"
    /\ s_vnodeListener
    /\ s_nextMessageId + Cardinality(BeforeMessageId) <= MaxMessageId
    /\ pc' = [pc EXCEPT ![t] = "called"]
    /\ \E i \in inputs : args' = [args EXCEPT ![t] = i]
    /\ UNCHANGED << statics, message, isShuttingDown, kauthResult, kauthError, sent,
                    delivered, lcLocals, dropped, panicked >>

\* Lines 153-336 up to the call of TrySendRequestAndWaitForResponse: the
\* counter is taken, then the thread decides on its own arguments.
Enter(t) ==
    /\ panicked = NoPanic
    /\ pc[t] = "called"
    /\ s_numActiveKauthEvents' = s_numActiveKauthEvents + 1
    /\ LET d == GateDecision(args[t])
       IN  /\ kauthResult' = [kauthResult EXCEPT ![t] = d.kauthResult]
           /\ pc' = [pc EXCEPT ![t] =
                 IF d.request = NoRoundTrip THEN "exit" ELSE "ts_getpath"]
    /\ UNCHANGED << s_vnodeListener, s_outstandingMessages, s_outstandingMessagesMutex,
                    s_nextMessageId, s_isShuttingDown, args, message, isShuttingDown,
                    kauthError, sent, delivered, lcLocals, dropped, panicked >>

\* A round trip that draws its id before it resolves the path.
GetPathAndId_DrawsIdFirst(t) ==
    /\ panicked = NoPanic
    /\ pc[t] = "ts_getpath"
    /\ s_nextMessageId' = s_nextMessageId + 1
    /\ \E resolved \in BOOLEAN :
          IF ~resolved
          THEN /\ kauthResult' = [kauthResult EXCEPT ![t] = KAUTH_RESULT_DENY]
               /\ pc' = [pc EXCEPT ![t] = "exit"]
               /\ UNCHANGED message
          ELSE /\ message' = [message EXCEPT ![t] =
                      [messageId |-> s_nextMessageId,
                       messageType |-> GateDecision(args[t]).request,
                       response |-> Uninitialized,
                       receivedResponse |-> FALSE]]
               /\ pc' = [pc EXCEPT ![t] = "ts_lock"]
               /\ UNCHANGED kauthResult
    /\ UNCHANGED << s_vnodeListener, s_outstandingMessages, s_outstandingMessagesMutex,
                    s_numActiveKauthEvents, s_isShuttingDown, args, isShuttingDown,
                    kauthError, sent, delivered, lcLocals, dropped, panicked >>

\* Lines 383-402: vn_getpath fails or resolves; the next message id is drawn.
GetPathAndId(t) ==
    /\ panicked = NoPanic
    /\ pc[t] = "ts_getpath"
    /\ \E resolved \in BOOLEAN :
          IF ~resolved
          THEN /\ kauthResult' = [kauthResult EXCEPT ![t] = KAUTH_RESULT_DENY]
               /\ pc' = [pc EXCEPT ![t] = "exit"]
               /\ UNCHANGED << s_nextMessageId, message >>
          ELSE /\ message' = [message EXCEPT ![t] =
                      [messageId |-> s_nextMessageId,
                       messageType |-> GateDecision(args[t]).request,
                       response |-> Uninitialized,
                       receivedResponse |-> FALSE]]
               /\ s_nextMessageId' = s_nextMessageId + 1
               /\ pc' = [pc EXCEPT ![t] = "ts_lock"]
               /\ UNCHANGED kauthResult
    /\ UNCHANGED << s_vnodeListener, s_outstandingMessages, s_outstandingMessagesMutex,
                    s_numActiveKauthEvents, s_isShuttingDown, args, isShuttingDown,
                    kauthError, sent, delivered, lcLocals, dropped, panicked >>

\* Line 405.
InsertLock(t) ==
    /\ panicked = NoPanic
    /\ pc[t] = "ts_lock"
    /\ Mutex_Acquire(t, "ts_check")
    /\ UNCHANGED << s_vnodeListener, s_outstandingMessages, s_nextMessageId,
                    s_numActiveKauthEvents, s_isShuttingDown, gateLocals, lcLocals, dropped >>

\* Line 408: the single read of s_isShuttingDown.
ReadShuttingDown(t) ==
    /\ panicked = NoPanic
    /\ pc[t] = "ts_check"
    /\ isShuttingDown' = [isShuttingDown EXCEPT ![t] = s_isShuttingDown]
    /\ pc' = [pc EXCEPT ![t] = "ts_insert"]
    /\ UNCHANGED << statics, args, message, kauthResult, kauthError, sent, delivered,
                    lcLocals, dropped, panicked >>

\* Lines 409-412.
InsertMessage(t) ==
    /\ panicked = NoPanic
    /\ pc[t] = "ts_insert"
    /\ s_outstandingMessages' =
          IF ~isShuttingDown[t]
          THEN LIST_INSERT_HEAD(s_outstandingMessages, t)
          ELSE s_outstandingMessages
    /\ pc' = [pc EXCEPT ![t] = "ts_unlock"]
    /\ UNCHANGED << s_vnodeListener, s_outstandingMessagesMutex, s_nextMessageId,
                    s_numActiveKauthEvents, s_isShuttingDown, gateLocals, lcLocals,
                    dropped, panicked >>

\* A send whose failure denies.
InsertUnlockAndSend_DenyOnFailure(t) ==
    /\ panicked = NoPanic
    /\ pc[t] = "ts_unlock"
    /\ IF isShuttingDown[t]
       THEN /\ Mutex_Release(t, "ts_wait")
            /\ UNCHANGED << kauthResult, sent >>
       ELSE \E accepted \in BOOLEAN :
               IF accepted
               THEN /\ Mutex_Release(t, "ts_wait")
                    /\ sent' = [sent EXCEPT ![t] = (panicked' = NoPanic)]
                    /\ UNCHANGED kauthResult
               ELSE /\ Mutex_Release(t, "ts_cleanup")
                    /\ kauthResult' = [kauthResult EXCEPT ![t] =
                          IF panicked' = NoPanic THEN KAUTH_RESULT_DENY ELSE kauthResult[t]]
                    /\ UNCHANGED sent
    /\ UNCHANGED << s_vnodeListener, s_outstandingMessages, s_nextMessageId,
                    s_numActiveKauthEvents, s_isShuttingDown, args, message, isShuttingDown,
                    kauthError, delivered, lcLocals, dropped >>

\* Lines 414-422: the mutex is released; ActiveProvider_SendMessage is
\* called unless the local says shutting down, and accepts the request or fails.
InsertUnlockAndSend(t) ==
    /\ panicked = NoPanic
    /\ pc[t] = "ts_unlock"
    /\ IF isShuttingDown[t]
       THEN /\ Mutex_Release(t, "ts_wait")
            /\ UNCHANGED << kauthResult, sent >>
       ELSE \E accepted \in BOOLEAN :
               IF accepted
               THEN /\ Mutex_Release(t, "ts_wait")
                    /\ sent' = [sent EXCEPT ![t] = (panicked' = NoPanic)]
                    /\ UNCHANGED kauthResult
               ELSE /\ Mutex_Release(t, "ts_cleanup")
                    /\ kauthResult' = [kauthResult EXCEPT ![t] =
                          IF panicked' = NoPanic THEN KAUTH_RESULT_DEFER ELSE kauthResult[t]]
                    /\ UNCHANGED sent
    /\ UNCHANGED << s_vnodeListener, s_outstandingMessages, s_nextMessageId,
                    s_numActiveKauthEvents, s_isShuttingDown, args, message, isShuttingDown,
                    kauthError, delivered, lcLocals, dropped >>

\* A loop that gives up when its sleep has timed out.
WaitTest_LeavesOnTimeout(t) ==
    /\ panicked = NoPanic
    /\ pc[t] = "ts_wait"
    /\ pc' = [pc EXCEPT ![t] = "ts_woke"]
    /\ UNCHANGED << statics, gateLocals, lcLocals, dropped, panicked >>

\* Lines 424-428: the test of the loop; the thread leaves the loop or sleeps.
WaitTest(t) ==
    /\ panicked = NoPanic
    /\ pc[t] = "ts_wait"
    /\ pc' = [pc EXCEPT ![t] =
          IF ~message[t].receivedResponse /\ ~s_isShuttingDown THEN "ts_sleep" ELSE "ts_woke"]
    /\ UNCHANGED << statics, gateLocals, lcLocals, dropped, panicked >>

\* Lines 489-496: msleep returns after its timeout of 5 seconds.
SleepTimeout(t) ==
    /\ panicked = NoPanic
    /\ pc[t] = "ts_sleep"
    /\ pc' = [pc EXCEPT ![t] = "ts_wait"]
    /\ UNCHANGED << statics, gateLocals, lcLocals, dropped, panicked >>

\* A verdict that defers whatever the response.
ResponseVerdict_AlwaysDefer(t, response) ==
    /\ kauthResult' = [kauthResult EXCEPT ![t] = KAUTH_RESULT_DEFER]
    /\ UNCHANGED kauthError

\* Lines 436-448 when the thread was not told a shutdown: the verdict of
\* the stored response.
ResponseVerdict(t, response) ==
    IF response = MessageType_Response_Success
    THEN /\ kauthResult' = [kauthResult EXCEPT ![t] = KAUTH_RESULT_DEFER]
         /\ UNCHANGED kauthError
    ELSE /\ kauthError' = [kauthError EXCEPT ![t] = EAGAIN]
         /\ kauthResult' = [kauthResult EXCEPT ![t] = KAUTH_RESULT_DENY]

\* A shutdown verdict that also writes EAGAIN.
ShutdownVerdict_WithEAGAIN(t) ==
    /\ kauthResult' = [kauthResult EXCEPT ![t] = KAUTH_RESULT_DENY]
    /\ kauthError' = [kauthError EXCEPT ![t] = EAGAIN]

\* Lines 430-434: the shutdown flag is read again and decides first.
ShutdownVerdict(t) ==
    /\ kauthResult' = [kauthResult EXCEPT ![t] = KAUTH_RESULT_DENY]
    /\ UNCHANGED kauthError

\* Lines 430-448.  A response the code never wrote compares either way.
AfterWait(t) ==
    /\ panicked = NoPanic
    /\ pc[t] = "ts_woke"
    /\ IF s_isShuttingDown
       THEN ShutdownVerdict(t)
       ELSE IF message[t].response = Uninitialized
            THEN \E r \in {MessageType_Response_Success, MessageType_Response_Fail} :
                    ResponseVerdict(t, r)
            ELSE ResponseVerdict(t, message[t].response)
    /\ pc' = [pc EXCEPT ![t] = "ts_cleanup"]
    /\ UNCHANGED << statics, args, message, isShuttingDown, sent, delivered, lcLocals,
                    dropped, panicked >>

\* Lines 450-457: the record is unlinked under the mutex and the call
\* returns; its locals are gone.  LIST_REMOVE of a record LIST_INSERT_HEAD
\* never linked stores through the record's unwritten le_prev and le_next:
\* the stores land outside the list, or the kernel panics on them.
RemoveMessage(t) ==
    /\ panicked = NoPanic
    /\ pc[t] = "ts_cleanup"
    /\ IF ~Mutex_IsValid(s_outstandingMessagesMutex)
       THEN /\ panicked' = Panic("Mutex_Acquire", t)
            /\ UNCHANGED << s_outstandingMessages, pc, message, isShuttingDown, sent,
                            delivered >>
       ELSE /\ MutexIsFree(s_outstandingMessagesMutex)
            /\ \/ /\ s_outstandingMessages' = LIST_REMOVE(s_outstandingMessages, t)
                  /\ pc' = [pc EXCEPT ![t] = "exit"]
                  /\ message' = [message EXCEPT ![t] = NoMessage]
                  /\ isShuttingDown' = [isShuttingDown EXCEPT ![t] = FALSE]
                  /\ sent' = [sent EXCEPT ![t] = FALSE]
                  /\ delivered' = [delivered EXCEPT ![t] = NoDelivery]
                  /\ UNCHANGED panicked
               \/ /\ t \notin Members(s_outstandingMessages)
                  /\ panicked' = Panic("LIST_REMOVE", t)
                  /\ UNCHANGED << s_outstandingMessages, pc, message, isShuttingDown, sent,
                                  delivered >>
    /\ UNCHANGED << s_vnodeListener, s_outstandingMessagesMutex, s_nextMessageId,
                    s_numActiveKauthEvents, s_isShuttingDown, args, kauthResult, kauthError,
                    lcLocals, dropped >>

\* A return that does not give the counter back.
Exit_NoDecrement(t) ==
    /\ panicked = NoPanic
    /\ pc[t] = "exit"
    /\ pc' = [pc EXCEPT ![t] = "idle"]
    /\ args' = [args EXCEPT ![t] = NoInput]
    /\ kauthResult' = [kauthResult EXCEPT ![t] = KAUTH_RESULT_DEFER]
    /\ kauthError' = [kauthError EXCEPT ![t] = ErrorUnset]
    /\ UNCHANGED << statics, message, isShuttingDown, sent, delivered, lcLocals, dropped,
                    panicked >>

\* Lines 337-339: the counter is given back and the verdict returned to
\* the kernel; the thread's stack frame is gone.
Exit(t) ==
    /\ panicked = NoPanic
    /\ pc[t] = "exit"
    /\ s_numActiveKauthEvents' = s_numActiveKauthEvents - 1
    /\ pc' = [pc EXCEPT ![t] = "idle"]
    /\ args' = [args EXCEPT ![t] = NoInput]
    /\ kauthResult' = [kauthResult EXCEPT ![t] = KAUTH_RESULT_DEFER]
    /\ kauthError' = [kauthError EXCEPT ![t] = ErrorUnset]
    /\ UNCHANGED << s_vnodeListener, s_outstandingMessages, s_outstandingMessagesMutex,
                    s_nextMessageId, s_isShuttingDown, message, isShuttingDown, sent,
                    delivered, lcLocals, dropped, panicked >>

(***************************************************************************)
(* KauthHandler_Init and KauthHandler_Cleanup on the lifecycle thread.     *)
(***************************************************************************)
lc == LifecycleThread

\* The kernel starts the kext.  Lines 74-77: an Init that finds the
\* listener registered goes to CleanupAndFail.
CallInit ==
    /\ panicked = NoPanic
    /\ pc[lc] = "idle"
    /\ lcCall' = "Init"
    /\ cleanupResult' = "KERN_SUCCESS"
    /\ pc' = [pc EXCEPT ![lc] = IF s_vnodeListener THEN "c_unlisten" ELSE "i_reset"]
    /\ UNCHANGED << statics, gateLocals, lcResult, started, dropped, panicked >>

\* Lines 79-82.
InitStatics ==
    /\ panicked = NoPanic
    /\ pc[lc] = "i_reset"
    /\ s_outstandingMessages' = << >>
    /\ s_nextMessageId' = 1
    /\ s_isShuttingDown' = FALSE
    /\ pc' = [pc EXCEPT ![lc] = "i_mutex"]
    /\ UNCHANGED << s_vnodeListener, s_outstandingMessagesMutex, s_numActiveKauthEvents,
                    gateLocals, lcLocals, dropped, panicked >>

\* Lines 84-88: Mutex_Alloc returns a mutex or an invalid one.
InitMutex ==
    /\ panicked = NoPanic
    /\ pc[lc] = "i_mutex"
    /\ \E allocated \in BOOLEAN :
          IF allocated
          THEN /\ s_outstandingMessagesMutex' = [valid |-> TRUE, owner |-> NoOwner]
               /\ pc' = [pc EXCEPT ![lc] = "i_listen"]
          ELSE /\ s_outstandingMessagesMutex' = NoMutex
               /\ pc' = [pc EXCEPT ![lc] = "c_unlisten"]
    /\ UNCHANGED << s_vnodeListener, s_outstandingMessages, s_nextMessageId,
                    s_numActiveKauthEvents, s_isShuttingDown, gateLocals, lcLocals,
                    dropped, panicked >>

\* Lines 90-101: VirtualizationRoots_Init succeeds or fails; then
\* kauth_listen_scope registers the listener or returns null.
InitRootsAndListen ==
    /\ panicked = NoPanic
    /\ pc[lc] = "i_listen"
    /\ \E rootsFailed \in BOOLEAN, registered \in BOOLEAN :
          IF ~rootsFailed /\ registered
          THEN /\ s_vnodeListener' = TRUE
               /\ pc' = [pc EXCEPT ![lc] = "idle"]
               /\ lcResult' = "KERN_SUCCESS"
               /\ started' = TRUE
          ELSE /\ pc' = [pc EXCEPT ![lc] = "c_unlisten"]
               /\ UNCHANGED << s_vnodeListener, lcResult, started >>
    /\ UNCHANGED << s_outstandingMessages, s_outstandingMessagesMutex, s_nextMessageId,
                    s_numActiveKauthEvents, s_isShuttingDown, gateLocals, lcCall,
                    cleanupResult, dropped, panicked >>

\* The kernel stops the kext it holds started.
CallCleanup ==
    /\ panicked = NoPanic
    /\ pc[lc] = "idle"
    /\ started
    /\ lcCall' = "Cleanup"
    /\ cleanupResult' = "KERN_SUCCESS"
    /\ pc' = [pc EXCEPT ![lc] = "c_unlisten"]
    /\ UNCHANGED << statics, gateLocals, lcResult, started, dropped, panicked >>

\* Lines 110-121.
CleanupUnlisten ==
    /\ panicked = NoPanic
    /\ pc[lc] = "c_unlisten"
    /\ IF s_vnodeListener
       THEN /\ s_vnodeListener' = FALSE
            /\ UNCHANGED cleanupResult
       ELSE /\ cleanupResult' = "KERN_FAILURE"
            /\ UNCHANGED s_vnodeListener
    /\ pc' = [pc EXCEPT ![lc] = "a_abort"]
    /\ UNCHANGED << s_outstandingMessages, s_outstandingMessagesMutex, s_nextMessageId,
                    s_numActiveKauthEvents, s_isShuttingDown, gateLocals, lcCall, lcResult,
                    started, dropped, panicked >>

\* AbortAllOutstandingEvents setting the flag without taking the mutex.
AbortSetShuttingDown_NoMutex ==
    /\ panicked = NoPanic
    /\ pc[LifecycleThread] = "a_abort"
    /\ s_isShuttingDown' = TRUE
    /\ pc' = [Wakeup(Members(s_outstandingMessages)) EXCEPT ![LifecycleThread] = "a_drain"]
    /\ UNCHANGED << s_vnodeListener, s_outstandingMessages, s_outstandingMessagesMutex,
                    s_nextMessageId, s_numActiveKauthEvents, gateLocals, lcLocals,
                    dropped, panicked >>

\* Lines 463-473: under the mutex the flag is set and every record's
\* thread is woken.
AbortSetShuttingDown ==
    /\ panicked = NoPanic
    /\ pc[lc] = "a_abort"
    /\ IF ~Mutex_IsValid(s_outstandingMessagesMutex)
       THEN /\ panicked' = Panic("Mutex_Acquire", lc)
            /\ UNCHANGED << s_isShuttingDown, pc >>
       ELSE /\ MutexIsFree(s_outstandingMessagesMutex)
            /\ s_isShuttingDown' = TRUE
            /\ pc' = [Wakeup(Members(s_outstandingMessages)) EXCEPT ![lc] = "a_drain"]
            /\ UNCHANGED panicked
    /\ UNCHANGED << s_vnodeListener, s_outstandingMessages, s_outstandingMessagesMutex,
                    s_nextMessageId, s_numActiveKauthEvents, gateLocals, lcLocals,
                    dropped >>

\* Lines 483-486: after a sleep of a second the counter is read; the loop
\* ends when it is not positive.
AbortDrained ==
    /\ panicked = NoPanic
    /\ pc[lc] = "a_drain"
    /\ ~(s_numActiveKauthEvents > 0)
    /\ pc' = [pc EXCEPT ![lc] = "c_roots"]
    /\ UNCHANGED << statics, gateLocals, lcLocals, dropped, panicked >>

\* Lines 126-140, and lines 104-105 when KauthHandler_Init made the call:
\* VirtualizationRoots_Cleanup succeeds or fails, the mutex is freed if it
\* is valid, and the routine returns.
CleanupFinish ==
    /\ panicked = NoPanic
    /\ pc[lc] = "c_roots"
    /\ \E rootsFailed \in BOOLEAN :
          LET result ==
                 IF rootsFailed \/ ~Mutex_IsValid(s_outstandingMessagesMutex)
                 THEN "KERN_FAILURE"
                 ELSE cleanupResult
          IN  lcResult' = IF lcCall = "Init" THEN "KERN_FAILURE" ELSE result
    /\ s_outstandingMessagesMutex' =
          IF Mutex_IsValid(s_outstandingMessagesMutex)
          THEN Mutex_FreeMemory(s_outstandingMessagesMutex)
          ELSE s_outstandingMessagesMutex
    /\ cleanupResult' = "KERN_SUCCESS"
    /\ started' = FALSE
    /\ pc' = [pc EXCEPT ![lc] = "idle"]
    /\ UNCHANGED << s_vnodeListener, s_outstandingMessages, s_nextMessageId,
                    s_numActiveKauthEvents, s_isShuttingDown, gateLocals, lcCall, dropped, panicked >>

(***************************************************************************)
(* KauthHandler_HandleKernelMessageResponse, called by the provider's      *)
(* user client on a thread of its own.                                     *)
(***************************************************************************)
MessageIds == 1..MaxMessageId

ResponseTypes == {MessageType_Response_Success, MessageType_Response_Fail}

\* The count of the responses stored into a record, kept up to "more than one".
CountDelivery(d, responseType) ==
    IF d.count = 0
    THEN [count |-> 1, kind |-> responseType]
    ELSE [count |-> 2, kind |-> Uninitialized]

\* Lines 351-364: the record the scan stops at gets the response and its
\* thread is woken.
StoreResponse(found, responseType) ==
    /\ message' = [t \in GateThreads |->
          IF t \in found
          THEN [message[t] EXCEPT !.response = responseType, !.receivedResponse = TRUE]
          ELSE message[t]]
    /\ delivered' = [t \in GateThreads |->
          IF t \in found THEN CountDelivery(delivered[t], responseType) ELSE delivered[t]]
    /\ pc' = Wakeup(found)

\* No record of the list carries the id.
NoMatch(messageId) ==
    \A t \in Members(s_outstandingMessages) : message[t].messageId # messageId

\* Lines 342-372: a response type other than Success and Fail falls
\* through the switch.
DeliverResponse(messageId, responseType) ==
    /\ panicked = NoPanic
    /\ IF responseType \notin ResponseTypes
       THEN UNCHANGED << message, delivered, pc, dropped, panicked >>
       ELSE IF ~Mutex_IsValid(s_outstandingMessagesMutex)
       THEN /\ panicked' = Panic("Mutex_Acquire", Responder)
            /\ UNCHANGED << message, delivered, pc, dropped >>
       ELSE /\ MutexIsFree(s_outstandingMessagesMutex)
            /\ StoreResponse(FirstMatch(s_outstandingMessages, message, messageId),
                             responseType)
            /\ dropped' = (dropped \/ NoMatch(messageId))
            /\ UNCHANGED panicked
    /\ UNCHANGED << statics, args, isShuttingDown, kauthResult, kauthError, sent, lcLocals >>

(***************************************************************************)
(* The specification: two gate threads on a few representative calls.      *)
(***************************************************************************)
Input(fsAllowed, vtype, flags, procname, root, pid, action) ==
    [fsAllowed |-> fsAllowed, vtype |-> vtype, flags |-> flags, procname |-> procname,
     root |-> root, pid |-> pid, action |-> action]

InRootEmpty == {FileFlags_IsInVirtualizationRoot, FileFlags_IsEmpty}

ConcurrentInputs ==
    { Input(TRUE, "VREG", {}, "git", NoRoot, 200, {KAUTH_VNODE_READ_DATA}),
      Input(TRUE, "VREG", InRootEmpty, "mds", LiveRoot, 200, {KAUTH_VNODE_READ_DATA}),
      Input(TRUE, "VREG", InRootEmpty, "git", OfflineRoot, 200, {KAUTH_VNODE_WRITE_DATA}),
      Input(TRUE, "VREG", InRootEmpty, "git", LiveRoot, 100, {KAUTH_VNODE_READ_DATA}),
      Input(TRUE, "VREG", InRootEmpty, "git", LiveRoot, 200, {KAUTH_VNODE_READ_DATA}) }

GateThreadStep(t) ==
    \/ Enter(t) \/ GetPathAndId(t)
    \/ InsertLock(t) \/ ReadShuttingDown(t) \/ InsertMessage(t) \/ InsertUnlockAndSend(t)
    \/ WaitTest(t) \/ SleepTimeout(t) \/ AfterWait(t)
    \/ RemoveMessage(t) \/ Exit(t)

LifecycleStep ==
    \/ CallInit \/ InitStatics \/ InitMutex \/ InitRootsAndListen
    \/ CallCleanup \/ CleanupUnlisten \/ AbortSetShuttingDown \/ AbortDrained
    \/ CleanupFinish

ResponderStep ==
    \E id \in MessageIds, k \in ResponseTypes \cup {MessageType_KtoU_HydrateFile} :
       DeliverResponse(id, k)

Next ==
    \/ \E t \in GateThreads : Dispatch(t, ConcurrentInputs)
    \/ \E t \in GateThreads : GateThreadStep(t)
    \/ LifecycleStep
    \/ ResponderStep

Spec == Init /\ [][Next]_vars

(***************************************************************************)
(* A second specification: one gate thread, started kext, every            *)
(* combination of the handler's inputs with at most MaxActionBits access   *)
(* bits.                                                                   *)
(***************************************************************************)
Actions == { a \in SUBSET ActionBits : Cardinality(a) <= MaxActionBits }

GateInputs ==
    { Input(fsAllowed, vtype, flags, procname, root, pid, action) :
         fsAllowed \in BOOLEAN,
         vtype \in {"VREG", "VDIR", "VLNK", "VNON", "VSTR"},
         flags \in SUBSET {FileFlags_IsInVirtualizationRoot, FileFlags_IsEmpty},
         procname \in {"git", "mds"},
         root \in Roots,
         pid \in Pids,
         action \in Actions }

\* The state KauthHandler_Init leaves when it returns KERN_SUCCESS.
GateInit ==
    /\ s_vnodeListener = TRUE
    /\ s_outstandingMessages = << >>
    /\ s_outstandingMessagesMutex = [valid |-> TRUE, owner |-> NoOwner]
    /\ s_nextMessageId = 1
    /\ s_numActiveKauthEvents = 0
    /\ s_isShuttingDown = FALSE
    /\ pc = [t \in Threads |-> "idle"]
    /\ args = [t \in GateThreads |-> NoInput]
    /\ message = [t \in GateThreads |-> NoMessage]
    /\ isShuttingDown = [t \in GateThreads |-> FALSE]
    /\ kauthResult = [t \in GateThreads |-> KAUTH_RESULT_DEFER]
    /\ kauthError = [t \in GateThreads |-> ErrorUnset]
    /\ sent = [t \in GateThreads |-> FALSE]
    /\ delivered = [t \in GateThreads |-> NoDelivery]
    /\ lcCall = "Init"
    /\ lcResult = "KERN_SUCCESS"
    /\ cleanupResult = "KERN_SUCCESS"
    /\ started = TRUE
    /\ dropped = FALSE
    /\ panicked = NoPanic

GateNext ==
    \/ Dispatch("g1", GateInputs)
    \/ GateThreadStep("g1")
    \/ ResponderStep

GateSpec == GateInit /\ [][GateNext]_vars

(***************************************************************************)
(* Properties.                                                             *)
(***************************************************************************)
\* C1: no round trip that holds the registry mutex links its record into the
\* registry while the shutdown flag is set: the flag is false before and
\* after every step in which a gate thread holding s_outstandingMessagesMutex
\* makes its record a member of s_outstandingMessages, for every interleaving
\* of the gate threads with AbortAllOutstandingEvents.
HoldsMutex(t) ==
    Mutex_IsValid(s_outstandingMessagesMutex) /\ s_outstandingMessagesMutex.owner = t

StopReturned == pc[LifecycleThread] = "idle" /\ lcCall = "Cleanup"

C3_DrainedAfterStop ==
    StopReturned => (s_numActiveKauthEvents = 0 /\ s_outstandingMessages = << >>)

\* C4 (as the spec states it, in its finite form): the kernel never halts
\* while a thread is blocked in the wait of a registered round trip after
\* the shutdown flag was set; such a thread would never leave the wait.
BlockedInWait(t) ==
    pc[t] \in {"ts_wait", "ts_sleep"} /\ t \in Members(s_outstandingMessages)

C4_BlockedThreadNotStranded ==
    ~(panicked # NoPanic /\ s_isShuttingDown /\ \E t \in GateThreads : BlockedInWait(t))

\* C5: every record of the registry belongs to a gate thread that is inside
\* its round trip, after its insert and before its remove; a thread outside
\* these positions, in particular one whose call has returned, has no record
\* in the registry, and no record is linked twice.
InRoundTrip(t) ==
    /\ pc[t] \in {"ts_unlock", "ts_wait", "ts_sleep", "ts_woke", "ts_cleanup"}
    /\ ~isShuttingDown[t]

C9_NoAcquireOfUnallocatedMutex ==
    ~(panicked.fault = "Mutex_Acquire" /\ panicked.caller \in GateThreads \cup {Responder})

\* C10: the counter is the number of gate threads that have executed the
\* increment of line 153 and not yet the decrement of line 338, and it is
\* never negative.
Executing == { t \in GateThreads : pc[t] \notin {"idle", "called"} }

C10_CounterCountsInvocations ==
    /\ s_numActiveKauthEvents = Cardinality(Executing)
    /\ s_numActiveKauthEvents >= 0

\* Both gate threads are inside the handler, one blocked in a round trip and
\* one about to return.
C10_Witness ==
    /\ s_numActiveKauthEvents = 2
    /\ \E t \in GateThreads, u \in GateThreads : pc[t] = "ts_sleep" /\ pc[u] = "exit"

\* The step in which a gate thread takes the verdict of lines 430-448.
TakesVerdict(t) == pc[t] = "ts_woke" /\ pc'[t] = "ts_cleanup"

DeliveredOnce(t, k) == delivered[t].count = 1 /\ delivered[t].kind = k

VerdictOf(k) ==
    IF k = MessageType_Response_Success THEN KAUTH_RESULT_DEFER ELSE KAUTH_RESULT_DENY

\* The step in which a response is stored into the record of t: the record
\* is registered, it gets the response and the received flag, its thread
\* is not left asleep, and no other record, position or verdict and no
\* membership changes.
DeliveryOnlyTouches(t) ==
    (delivered'[t].count > delivered[t].count) =>
       /\ t \in Members(s_outstandingMessages)
       /\ message'[t].receivedResponse
       /\ message'[t].response \in ResponseTypes
       /\ pc'[t] # "ts_sleep"
       /\ \A u \in GateThreads \ {t} :
             message'[u] = message[u] /\ delivered'[u] = delivered[u] /\ pc'[u] = pc[u]
       /\ UNCHANGED << s_outstandingMessages, kauthResult, kauthError >>

\* C2 (as the spec states it): a thread whose record got exactly one
\* response k takes the verdict derived from k, Success -> defer and
\* Fail -> deny, and the delivery touches no other thread.
C2_VerdictFromResponse ==
    [][ \A t \in GateThreads :
           /\ DeliveryOnlyTouches(t)
           /\ \A k \in ResponseTypes :
                 (TakesVerdict(t) /\ DeliveredOnce(t, k)) => kauthResult'[t] = VerdictOf(k) ]_vars

\* C2 (amended): a thread whose record got exactly one response k takes
\* the verdict derived from k unless the shutdown flag is set when it reads
\* the flag after the wait; then it takes deny whatever k.  The delivery
\* touches no other thread.
C2_VerdictFromResponseUnlessShutdown ==
    [][ \A t \in GateThreads :
           /\ DeliveryOnlyTouches(t)
           /\ \A k \in ResponseTypes :
                 (TakesVerdict(t) /\ DeliveredOnce(t, k)) =>
                    kauthResult'[t] =
                       IF s_isShuttingDown THEN KAUTH_RESULT_DENY ELSE VerdictOf(k) ]_vars

\* A thread that got exactly one Success response has taken deny.
C2_Witness ==
    \E t \in GateThreads :
       /\ pc[t] = "ts_cleanup"
       /\ DeliveredOnce(t, MessageType_Response_Success)
       /\ kauthResult[t] = KAUTH_RESULT_DENY

\* C6: a call of KauthHandler_HandleKernelMessageResponse with an id no
\* record of the registry carries leaves the registry, every record, every
\* verdict and error output and every thread's position unchanged.
C6_UnmatchedResponseIsNoOp ==
    [][ \A id \in MessageIds, k \in ResponseTypes :
           (NoMatch(id) /\ DeliverResponse(id, k)) =>
              UNCHANGED << s_outstandingMessages, message, delivered, kauthResult,
                           kauthError, pc >> ]_vars

\* A response was dropped and a thread is still asleep on its registered
\* record, which has no response.
C6_Witness ==
    /\ dropped
    /\ \E t \in GateThreads :
          /\ pc[t] = "ts_sleep"
          /\ t \in Members(s_outstandingMessages)
          /\ ~message[t].receivedResponse

\* C7 (as the spec states it): a round trip that ends on a Fail response or
\* on the shutdown flag takes deny and writes EAGAIN to the error output.
C7_FailAndShutdownWriteEAGAIN ==
    [][ \A t \in GateThreads :
           ( /\ TakesVerdict(t)
             /\ \/ s_isShuttingDown
                \/ message[t].response = MessageType_Response_Fail )
              => (kauthResult'[t] = KAUTH_RESULT_DENY /\ kauthError'[t] = EAGAIN) ]_vars

\* C7 (amended): a round trip that ends on a Fail response takes deny and
\* writes EAGAIN to the error output; a round trip that ends on the shutdown
\* flag takes deny and leaves the error output as the caller set it.
C7_FailWritesEAGAINShutdownDoesNot ==
    [][ \A t \in GateThreads :
           TakesVerdict(t) =>
              IF s_isShuttingDown
              THEN kauthResult'[t] = KAUTH_RESULT_DENY /\ kauthError'[t] = ErrorUnset
              ELSE (message[t].response = MessageType_Response_Fail) =>
                      (kauthResult'[t] = KAUTH_RESULT_DENY /\ kauthError'[t] = EAGAIN) ]_vars

\* A round trip whose request the provider accepted has ended on the
\* shutdown flag: deny, and no EAGAIN.
C7_Witness ==
    \E t \in GateThreads :
       /\ pc[t] = "ts_cleanup"
       /\ sent[t]
       /\ s_isShuttingDown
       /\ kauthResult[t] = KAUTH_RESULT_DENY
       /\ kauthError[t] = ErrorUnset

\* The step in which the handler decides on its arguments without a round
\* trip: no id is drawn, nothing is inserted or sent.
DefersWithoutRoundTrip(t) ==
    /\ pc'[t] = "exit"
    /\ kauthResult'[t] = KAUTH_RESULT_DEFER
    /\ UNCHANGED << s_nextMessageId, s_outstandingMessages, sent >>

\* C8 (as the spec states it): a call whose pid is the provider pid of the
\* root the vnode belongs to defers without a round trip, whatever the
\* flags, the vnode type and the action.
C8_ProviderAlwaysDefers ==
    [][ \A t \in GateThreads :
           ( /\ pc[t] = "called" /\ pc'[t] # "called"
             /\ args[t].root.found
             /\ args[t].pid = args[t].root.providerPid )
              => DefersWithoutRoundTrip(t) ]_vars

\* C8 (amended): a call whose pid is the provider pid of a root with a
\* live provider defers without a round trip, whatever the flags, the vnode
\* type and the action, unless the vnode is an empty one in a root and the
\* caller is named like a crawler.
DeniedAsCrawler(i) ==
    /\ i.fsAllowed
    /\ ~ShouldIgnoreVnodeType(i.vtype)
    /\ FileFlagsBitIsSet(i.flags, FileFlags_IsInVirtualizationRoot)
    /\ FileFlagsBitIsSet(i.flags, FileFlags_IsEmpty)
    /\ IsFileSystemCrawler(i.procname)

C8_LiveProviderDefers ==
    [][ \A t \in GateThreads :
           ( /\ pc[t] = "called" /\ pc'[t] # "called"
             /\ args[t].root.found
             /\ args[t].root.providerUserClient
             /\ args[t].pid = args[t].root.providerPid
             /\ ~DeniedAsCrawler(args[t]) )
              => DefersWithoutRoundTrip(t) ]_vars

\* The provider itself read an empty directory of its live root and the
\* handler deferred.
C8_Witness ==
    \E t \in GateThreads :
       /\ pc[t] = "exit"
       /\ kauthResult[t] = KAUTH_RESULT_DEFER
       /\ args[t].fsAllowed
       /\ args[t].vtype = "VDIR"
       /\ args[t].flags = {FileFlags_IsInVirtualizationRoot, FileFlags_IsEmpty}
       /\ args[t].procname = "git"
       /\ args[t].root = LiveRoot
       /\ args[t].pid = LiveRoot.providerPid
       /\ args[t].action = {KAUTH_VNODE_LIST_DIRECTORY}

\* The step in which the handler runs lines 153-336 on its arguments.
Decides(t) == pc[t] = "called" /\ pc'[t] # "called"

\* The handler returns at once with the verdict: no id is drawn, nothing is
\* inserted or sent.
ReturnsWithoutRoundTrip(t, verdict) ==
    /\ pc'[t] = "exit"
    /\ kauthResult'[t] = verdict
    /\ UNCHANGED << s_nextMessageId, s_outstandingMessages, sent >>

\* The vnode is on an allowed filesystem and of a type the handler looks at.
Intercepted(i) ==
    i.fsAllowed /\ i.vtype \notin {"VNON", "VBLK", "VCHR", "VSOCK", "VFIFO", "VBAD"}

CrawlerNames == {"mds", "mdworker", "mds_stores", "fseventsd", "Spotlight"}

\* C11: each of the five crawler names is taken for a crawler, and a call
\* by a process of such a name on an intercepted vnode with
\* IsInVirtualizationRoot and IsEmpty set is denied without a round trip,
\* whatever the action, the root and the pid.
C11_CrawlerDenied ==
    [][ /\ \A name \in CrawlerNames : IsFileSystemCrawler(name)
        /\ \A t \in GateThreads :
              ( /\ Decides(t)
                /\ Intercepted(args[t])
                /\ args[t].flags = {FileFlags_IsInVirtualizationRoot, FileFlags_IsEmpty}
                /\ args[t].procname \in CrawlerNames )
                 => ReturnsWithoutRoundTrip(t, KAUTH_RESULT_DENY) ]_vars

\* mds, calling with the provider's own pid, searched an empty directory
\* of a live root and was denied.
C11_Witness ==
    \E t \in GateThreads :
       /\ pc[t] = "exit"
       /\ kauthResult[t] = KAUTH_RESULT_DENY
       /\ args[t].fsAllowed
       /\ args[t].vtype = "VDIR"
       /\ args[t].flags = {FileFlags_IsInVirtualizationRoot, FileFlags_IsEmpty}
       /\ args[t].procname = "mds"
       /\ args[t].root = LiveRoot
       /\ args[t].pid = LiveRoot.providerPid
       /\ args[t].action = {KAUTH_VNODE_SEARCH}

\* The write bits of lines 233-240.
OfflineWriteBits ==
    { KAUTH_VNODE_WRITE_ATTRIBUTES, KAUTH_VNODE_WRITE_EXTATTRIBUTES,
      KAUTH_VNODE_WRITE_DATA, KAUTH_VNODE_APPEND_DATA,
      KAUTH_VNODE_WRITE_SECURITY, KAUTH_VNODE_LINKTARGET }

\* The bits an empty directory of an offline root may additionally be asked
\* for (line 258).
OfflineDirectoryBits ==
    { KAUTH_VNODE_READ_ATTRIBUTES, KAUTH_VNODE_READ_SECURITY,
      KAUTH_VNODE_LIST_DIRECTORY, KAUTH_VNODE_SEARCH }

\* The verdict table for a node of an offline root, given the bits that let
\* an empty node of any kind through.
OfflineVerdict(i, emptyDeferBits) ==
    IF (i.action \cap OfflineWriteBits) # {} /\ KAUTH_VNODE_ACCESS \notin i.action
    THEN KAUTH_RESULT_DENY
    ELSE IF FileFlags_IsEmpty \in i.flags
    THEN IF \/ (i.action \cap emptyDeferBits) # {}
            \/ i.vtype = "VDIR" /\ (i.action \cap OfflineDirectoryBits) # {}
         THEN KAUTH_RESULT_DEFER
         ELSE KAUTH_RESULT_DENY
    ELSE KAUTH_RESULT_DEFER

\* A non-crawler calls on an intercepted node of an offline root.
OfflineCall(t) ==
    /\ Decides(t)
    /\ Intercepted(args[t])
    /\ FileFlags_IsInVirtualizationRoot \in args[t].flags
    /\ args[t].procname \notin CrawlerNames
    /\ args[t].root = OfflineRoot

OutsideAnyRoot(t) ==
    pc[t] # "idle" /\ FileFlags_IsInVirtualizationRoot \notin args[t].flags

\* C13: a call on a node without the IsInVirtualizationRoot flag, whatever
\* its bits, kind, Empty flag and caller, takes the counter, returns defer
\* and gives the counter back; it never is inside the round trip, and its
\* two steps change no other shared state: not the registry, the id
\* counter, the transport, the listener, the mutex or the shutdown flag.
C13_OutsideRootDefersUntouched ==
    [][ \A t \in GateThreads :
          OutsideAnyRoot(t) =>
             /\ pc[t] \in {"called", "exit"}
             /\ Decides(t) =>
                   /\ ReturnsWithoutRoundTrip(t, KAUTH_RESULT_DEFER)
                   /\ s_numActiveKauthEvents' = s_numActiveKauthEvents + 1
                   /\ UNCHANGED << s_vnodeListener, s_outstandingMessagesMutex,
                                   s_isShuttingDown, message >>
             /\ pc[t] = "exit" /\ pc'[t] # "exit" =>
                   /\ kauthResult[t] = KAUTH_RESULT_DEFER
                   /\ pc'[t] = "idle"
                   /\ s_numActiveKauthEvents' = s_numActiveKauthEvents - 1
                   /\ UNCHANGED << s_vnodeListener, s_outstandingMessages,
                                   s_outstandingMessagesMutex, s_nextMessageId,
                                   s_isShuttingDown, message, sent >> ]_vars

\* A non-crawler, not the provider, asked to read an empty regular file that
\* lies under a live root but carries no IsInVirtualizationRoot flag, and
\* the handler deferred.
C13_Witness ==
    \E t \in GateThreads :
       /\ pc[t] = "exit"
       /\ kauthResult[t] = KAUTH_RESULT_DEFER
       /\ args[t].fsAllowed
       /\ args[t].vtype = "VREG"
       /\ args[t].flags = {FileFlags_IsEmpty}
       /\ args[t].procname = "git"
       /\ args[t].root = LiveRoot
       /\ args[t].pid # LiveRoot.providerPid
       /\ args[t].action = {KAUTH_VNODE_READ_DATA}
       /\ s_numActiveKauthEvents = 1

\* KauthHandler_Init has returned KERN_FAILURE and no call of the lifecycle
\* has been made since.
InitFailed ==
    lcCall = "Init" /\ pc[LifecycleThread] = "idle" /\ lcResult = "KERN_FAILURE"

\* The rollback of a failing KauthHandler_Init acquired the registry mutex
\* that Mutex_Alloc had not delivered.
RollbackAcquiredUnallocatedMutex ==
    /\ lcCall = "Init"
    /\ panicked.fault = "Mutex_Acquire"
    /\ panicked.caller = LifecycleThread

\* C14 (as the spec states it): after a KauthHandler_Init that failed in
\* any of its sub-steps the listener is not registered and the registry
\* mutex is not allocated, and the rollback has operated on no resource
\* that was never set up.
C14_FailedInitRollsBackCleanly ==
    /\ InitFailed => ~s_vnodeListener /\ ~Mutex_IsValid(s_outstandingMessagesMutex)
    /\ ~RollbackAcquiredUnallocatedMutex

\* C15 (as the spec states it): the id counter only ever grows, over any
\* sequence of KauthHandler_Init and KauthHandler_Cleanup, so that an id
\* once drawn by a round trip is never drawn again by a later one.
C15_IdsNeverReused ==
    [][ s_nextMessageId' >= s_nextMessageId ]_vars

\* The bits that make the handler enumerate an empty directory (lines
\* 284-290) and hydrate an empty non-directory (lines 310-318).
EnumerateBits ==
    { KAUTH_VNODE_LIST_DIRECTORY, KAUTH_VNODE_SEARCH, KAUTH_VNODE_READ_SECURITY,
      KAUTH_VNODE_READ_ATTRIBUTES, KAUTH_VNODE_READ_EXTATTRIBUTES }

HydrateBits ==
    { KAUTH_VNODE_READ_ATTRIBUTES, KAUTH_VNODE_WRITE_ATTRIBUTES,
      KAUTH_VNODE_READ_EXTATTRIBUTES, KAUTH_VNODE_WRITE_EXTATTRIBUTES,
      KAUTH_VNODE_READ_DATA, KAUTH_VNODE_WRITE_DATA, KAUTH_VNODE_EXECUTE }

NeedsProvider(i) ==
    /\ FileFlags_IsEmpty \in i.flags
    /\ IF i.vtype = "VDIR"
       THEN (i.action \cap EnumerateBits) # {}
       ELSE (i.action \cap HydrateBits) # {}

RequestKind(i) ==
    IF i.vtype = "VDIR"
    THEN MessageType_KtoU_EnumerateDirectory
    ELSE MessageType_KtoU_HydrateFile

\* A non-crawler that is not the provider calls on an intercepted node of a
\* live root.
LiveCall(t) ==
    /\ Decides(t)
    /\ Intercepted(args[t])
    /\ FileFlags_IsInVirtualizationRoot \in args[t].flags
    /\ args[t].procname \notin CrawlerNames
    /\ args[t].root = LiveRoot
    /\ args[t].pid # args[t].root.providerPid

\* The step of lines 383-402 in which the round trip has resolved the path
\* and builds its message.
BuildsMessage(t) == pc[t] = "ts_getpath" /\ pc'[t] = "ts_lock"

\* C16: on a node of a live root, called by a non-crawler that is not the
\* provider, the handler enters the round trip exactly when the node is
\* empty and the bits meet the set of its kind, and the message it builds
\* asks for an enumeration for a directory and for a hydration otherwise;
\* in every other case it defers and draws no id, inserts and sends nothing.
C16_RoundTripIffEmptyAndKindBits ==
    [][ \A t \in GateThreads :
          /\ LiveCall(t) =>
                IF NeedsProvider(args[t])
                THEN /\ pc'[t] = "ts_getpath"
                     /\ UNCHANGED << s_nextMessageId, s_outstandingMessages, sent >>
                ELSE ReturnsWithoutRoundTrip(t, KAUTH_RESULT_DEFER)
          /\ BuildsMessage(t) =>
                /\ message'[t].messageType = RequestKind(args[t])
                /\ message'[t].messageId = s_nextMessageId
                /\ s_nextMessageId' = s_nextMessageId + 1 ]_vars

\* A non-crawler that is not the provider searched an empty directory of a
\* live root, and the message the round trip has built asks for an
\* enumeration.
C16_Witness ==
    \E t \in GateThreads :
       /\ pc[t] = "ts_lock"
       /\ message[t].messageType = MessageType_KtoU_EnumerateDirectory
       /\ message[t].messageId = 1
       /\ args[t].vtype = "VDIR"
       /\ args[t].flags = {FileFlags_IsInVirtualizationRoot, FileFlags_IsEmpty}
       /\ args[t].procname = "git"
       /\ args[t].root = LiveRoot
       /\ args[t].pid # LiveRoot.providerPid
       /\ args[t].action = {KAUTH_VNODE_SEARCH}

\* The thread is in the loop of lines 424-428: at its test or asleep.
InWaitLoop(t) == pc[t] \in {"ts_wait", "ts_sleep"}

\* C17: a thread leaves the wait loop only from the loop's test and only
\* when its own record has receivedResponse or the shutdown flag is set; a
\* wake-up from the sleep leads back to the test and nowhere else; and the
\* step that stores a response into one thread's record changes no other
\* thread's record, so a response for another id ends nobody else's wait.
C17_WaitEndsOnlyOnResponseOrShutdown ==
    [][ \A t \in GateThreads :
          /\ InWaitLoop(t) /\ pc'[t] # pc[t] =>
                \/ pc[t] = "ts_sleep" /\ pc'[t] = "ts_wait"
                \/ /\ pc[t] = "ts_wait"
                   /\ ~message[t].receivedResponse
                   /\ ~s_isShuttingDown
                   /\ pc'[t] = "ts_sleep"
                \/ /\ pc[t] = "ts_wait"
                   /\ message[t].receivedResponse \/ s_isShuttingDown
                   /\ pc'[t] = "ts_woke"
          /\ InWaitLoop(t) /\ ~message[t].receivedResponse /\ message'[t].receivedResponse =>
                /\ t \in Members(s_outstandingMessages)
                /\ delivered'[t] # delivered[t]
                /\ \A u \in GateThreads \ {t} : message'[u] = message[u] ]_vars

\* One thread has left the loop with its response while another one, whose
\* record has no response, sleeps on with the shutdown flag not set.
C17_Witness ==
    \E t, u \in GateThreads :
       /\ pc[t] = "ts_sleep"
       /\ ~message[t].receivedResponse
       /\ ~s_isShuttingDown
       /\ pc[u] = "ts_woke"
       /\ message[u].receivedResponse
       /\ message[u].messageId # message[t].messageId

\* The step in which ActiveProvider_SendMessage fails (lines 416-422).
SendFails(t) == pc[t] = "ts_unlock" /\ pc'[t] = "ts_cleanup"

\* The thread is at CleanupAndReturn after a failed send: it inserted its
\* record and the provider did not take the request.
AfterFailedSend(t) == pc[t] = "ts_cleanup" /\ ~sent[t] /\ ~isShuttingDown[t]

\* C18: a send that fails, which is only tried when the thread did not
\* read the shutdown flag set, finds the thread's record in the registry
\* and sets the verdict to defer; from there the thread's only step is the
\* one that takes its record out of the registry and returns, with the
\* verdict still defer and no error code written: it never waits.
C18_SendFailureDefersAndRemoves ==
    [][ \A t \in GateThreads :
          /\ SendFails(t) =>
                /\ ~isShuttingDown[t]
                /\ t \in Members(s_outstandingMessages)
                /\ kauthResult'[t] = KAUTH_RESULT_DEFER
                /\ AfterFailedSend(t)'
          /\ AfterFailedSend(t) =>
                /\ kauthResult[t] = KAUTH_RESULT_DEFER
                /\ kauthError[t] = ErrorUnset
                /\ t \in Members(s_outstandingMessages)
                /\ pc'[t] # pc[t] =>
                      /\ pc'[t] = "exit"
                      /\ t \notin Members(s_outstandingMessages')
                      /\ kauthResult'[t] = KAUTH_RESULT_DEFER
                      /\ kauthError'[t] = ErrorUnset ]_vars

\* A thread's send has failed while the handler was not shutting down: its
\* verdict is defer, it stands at CleanupAndReturn without having waited,
\* and its record is in the registry next to the record of a thread that
\* waits.
C18_Witness ==
    \E t, u \in GateThreads :
       /\ AfterFailedSend(t)
       /\ kauthResult[t] = KAUTH_RESULT_DEFER
       /\ ~s_isShuttingDown
       /\ t \in Members(s_outstandingMessages)
       /\ u \in Members(s_outstandingMessages)
       /\ pc[u] = "ts_sleep"

\* The step in which vn_getpath fails (lines 390-395).
PathFails(t) == pc[t] = "ts_getpath" /\ pc'[t] = "exit"

\* C19: when the path does not resolve the round trip returns at once with
\* Deny and no error code; the step draws no id, inserts and removes no
\* record, takes no mutex, sends nothing, and the thread goes to the
\* handler's return without passing through the wait.
C19_PathFailureDeniesOpensNothing ==
    [][ \A t \in GateThreads :
          /\ pc[t] = "ts_getpath" =>
                /\ message[t] = NoMessage
                /\ ~sent[t]
                /\ t \notin Members(s_outstandingMessages)
                /\ pc'[t] \in {"ts_getpath", "exit", "ts_lock"}
          /\ PathFails(t) =>
                /\ kauthResult'[t] = KAUTH_RESULT_DENY
                /\ kauthError'[t] = ErrorUnset
                /\ UNCHANGED << s_nextMessageId, s_outstandingMessages,
                                s_outstandingMessagesMutex, message, sent, delivered >> ]_vars

\* The path of an empty file of a live root did not resolve: the caller,
\* neither a crawler nor the provider, is denied with no error code, and
\* the first id has not been drawn.
C19_Witness ==
    \E t \in GateThreads :
       /\ pc[t] = "exit"
       /\ kauthResult[t] = KAUTH_RESULT_DENY
       /\ kauthError[t] = ErrorUnset
       /\ args[t].procname = "git"
       /\ args[t].root = LiveRoot
       /\ args[t].pid # LiveRoot.providerPid
       /\ args[t].vtype = "VREG"
       /\ NeedsProvider(args[t])
       /\ s_nextMessageId = 1
       /\ s_outstandingMessages = << >>

\* The step in which the thread applies LIST_REMOVE to its record (line
\* 453): the record is unlinked and the call returns, or the stores through
\* the record's link fields fault.
AppliesRemove(t) ==
    /\ pc[t] = "ts_cleanup"
    /\ pc'[t] = "exit" \/ panicked' = Panic("LIST_REMOVE", t)

\* C20 (as the spec states it): a thread applies the registry remove only
\* to a record that is a member of the registry at that moment; a thread
\* that read the shutdown flag set and did not insert returns without it.
C20_RemovesOnlyInsertedRecord ==
    [][ \A t \in GateThreads :
          AppliesRemove(t) => t \in Members(s_outstandingMessages) ]_vars

====
